---- MODULE Spec2Model ----
(***************************************************************************)
(* Model of the OpenCode server supervisor (backend/opencode_client.py,    *)
(* class OpenCodeServer), of its helpers called on their own, of the       *)
(* event-stream generator OpenCodeClient.listen_events, and of the MarsAPI *)
(* operations over the REST client (backend/main.py).  Each part has its   *)
(* own specification: Spec, SpecHelpers, SpecEvents, SpecApi; and          *)
(* SpecConcurrent is the supervisor under two overlapping callers.         *)
(*                                                                         *)
(* Strings of the program are sequences of tokens: "/a/." is               *)
(* <<"/", "a", "/", ".">> and the empty string is <<>>.  Python's None is  *)
(* the one-token sequence None below, so every value a variable holds has  *)
(* one type.                                                               *)
(***************************************************************************)
EXTENDS Integers, Sequences, FiniteSets, TLC

-----------------------------------------------------------------------------
(* Bounds of the model *)

\* The supervisor spawns at most MaxSpawn children in one behaviour.
MaxSpawn == 2
\* The lines the peer of the event stream sends after the headers, at most
MaxLines == 3
\* The PIDs lsof reports for the port, at most
MaxPids == 3

-----------------------------------------------------------------------------
(* Values *)

None == <<"<None>">>
BadJson == <<"<BadJson>">>

\* Python truthiness of an Optional[str]
Truthy(s) == s # None /\ s # <<>>

\* self._process = None
NoProcess == 0

\* max_attempts = 30
max_attempts == 30

\* The callers of the supervisor; the serialized specification runs caller 1.
Callers == {1, 2}
SerialCallers == {1}

-----------------------------------------------------------------------------
(* os.path.normpath, as posixpath computes it *)

\* path.split("/"): the components, each a token sequence
RECURSIVE Split(_)
Split(s) ==
    IF s = <<>> THEN << <<>> >>
    ELSE IF Head(s) = "/" THEN << <<>> >> \o Split(Tail(s))
    ELSE LET r == Split(Tail(s))
         IN  << <<Head(s)>> \o Head(r) >> \o Tail(r)

\* "/".join(comps)
RECURSIVE Join(_)
Join(comps) ==
    IF comps = <<>> THEN <<>>
    ELSE IF Len(comps) = 1 THEN comps[1]
    ELSE comps[1] \o <<"/">> \o Join(Tail(comps))

InitialSlashes(path) ==
    IF path = <<>> \/ Head(path) # "/" THEN 0
    ELSE IF Len(path) >= 2 /\ path[2] = "/" /\ ~(Len(path) >= 3 /\ path[3] = "/")
         THEN 2
    ELSE 1

RECURSIVE NormComps(_, _, _)
NormComps(comps, new_comps, initial_slashes) ==
    IF comps = <<>> THEN new_comps
    ELSE LET comp == Head(comps)
             n == Len(new_comps)
         IN  IF comp = <<>> \/ comp = <<".">>
             THEN NormComps(Tail(comps), new_comps, initial_slashes)
             ELSE IF \/ comp # <<"..">>
                     \/ (initial_slashes = 0 /\ n = 0)
                     \/ (n > 0 /\ new_comps[n] = <<"..">>)
             THEN NormComps(Tail(comps), Append(new_comps, comp), initial_slashes)
             ELSE IF n > 0
             THEN NormComps(Tail(comps), SubSeq(new_comps, 1, n - 1), initial_slashes)
             ELSE NormComps(Tail(comps), new_comps, initial_slashes)

normpath(path) ==
    IF path = <<>> THEN <<".">>
    ELSE LET i == InitialSlashes(path)
             joined == Join(NormComps(Split(path), <<>>, i))
             r == [k \in 1..i |-> "/"] \o joined
         IN  IF r = <<>> THEN <<".">> ELSE r

-----------------------------------------------------------------------------
(* Inputs *)

\* Directories of the file system the supervisor may be asked to use
DirA == <<"/", "a">>
DirADot == <<"/", "a", "/", ".">>
DirASlash == <<"/", "a", "/">>
DirB == <<"/", "b">>
\* abspath(join(dirname(__file__), "..", ".."))
FallbackDir == <<"/", "app">>

\* An environment: the four variables _resolve_workdir reads, and the set of
\* paths that are directories.
Environs ==
    { [MARS_WORKDIR |-> None, OPENCODE_WORKDIR |-> None, MARS_LAUNCH_CWD |-> None,
       PWD |-> None, dirs |-> {}],
      [MARS_WORKDIR |-> None, OPENCODE_WORKDIR |-> None, MARS_LAUNCH_CWD |-> DirA,
       PWD |-> DirB, dirs |-> {DirA, DirB, FallbackDir}],
      [MARS_WORKDIR |-> DirADot, OPENCODE_WORKDIR |-> DirB, MARS_LAUNCH_CWD |-> DirA,
       PWD |-> DirA, dirs |-> {DirA, DirADot, DirB, FallbackDir}],
      [MARS_WORKDIR |-> DirADot, OPENCODE_WORKDIR |-> DirB, MARS_LAUNCH_CWD |-> <<>>,
       PWD |-> DirA, dirs |-> {DirB, FallbackDir}] }

\* The project directories an out-of-band server may report ("" when it has none)
ExtDirs == {DirA, DirASlash, <<>>}

\* A child spawned without a working directory runs in the supervisor's own.
CwdDir == FallbackDir

-----------------------------------------------------------------------------
(* State *)

VARIABLES
    _process,   \* OpenCodeServer._process: NoProcess, or the index of a child
    _running,   \* OpenCodeServer._running
    children,   \* the children spawned so far: [st, dir] each
    listener,   \* who holds the configured port: [kind, id]
    extDir,     \* the project directory of the out-of-band server, if it listens
    pc,         \* each caller's position
    op,         \* each caller's operation in progress
    desired,    \* start(): desired_workdir
    attempt,    \* start(): the polling loop's attempt
    ret,        \* the value the operation returns
    cause,      \* the return statement that produced it
    log,        \* history: the effects of the call in progress, in order
    pre,        \* history: _process, _running and the children at the call's begin
    probe0,     \* history: the outcome of start()'s first connectivity probe
    seen,       \* history: the answer to start()'s GET /project/current
    nprobe,     \* history: the probes made by the polling loop
    cfg,        \* history: the answer to is_running()'s GET /config
    prev        \* history: the last start() or stop() that returned

\* OpenCodeClient.listen_events, a generator, and its consumer
VARIABLES
    stream,     \* the lines the peer sends before it closes the connection
    pos,        \* sock_file: the next line to read
    gen,        \* the generator's position
    sock,       \* the socket: "unbound", "open" or "closed"
    nconn,      \* history: the TCP connections the call has opened
    emitted,    \* history: the events yielded, in order
    decoded,    \* history: the JSON object each of them was made from
    ended,      \* how the generator finished
    escaped,    \* an exception reached the consumer
    polled      \* the consumer asked a finished generator for one more event

supervisor == <<_process, _running, children, listener, extDir, pc, op, desired,
                attempt, ret, cause, log, pre, probe0, seen, nprobe, cfg, prev>>
events == <<stream, pos, gen, sock, nconn, emitted, decoded, ended, escaped, polled>>

\* The helpers of OpenCodeServer, each called on its own
VARIABLES
    helper,     \* the helper that was called, "none" before the call
    given,      \* what it found in its environment
    result      \* what it returned and did

helpers == <<helper, given, result>>

\* MarsAPI over the REST client
VARIABLES
    _current_session_id,    \* MarsAPI._current_session_id
    called,     \* the operation in progress and its arguments
    sent,       \* history: the requests the call made, each with its answer
    returned    \* what the operation returned to the GUI

api == <<_current_session_id, called, sent, returned>>

vars == <<supervisor, events, helpers, api>>

\* What the steps of one part of the program leave alone
besideSupervisor == <<events, helpers, api>>
besideEvents == <<supervisor, helpers, api>>
besideHelpers == <<supervisor, events, api>>
besideApi == <<supervisor, events, helpers>>

sup == <<_process, _running>>
world == <<children, listener, extDir>>
hist == <<log, pre, probe0, seen, nprobe, cfg, prev>>

NoListener == [kind |-> "none", id |-> 0]
ExtListener == [kind |-> "ext", id |-> 0]
ChildListener(i) == [kind |-> "child", id |-> i]

NoResp == [status |-> 0, body |-> None]
NoPre == [process |-> NoProcess, running |-> FALSE]
NoPrev == [op |-> "none", cause |-> "none", api |-> [success |-> FALSE, error |-> None],
           spawns |-> 0]

Has(s, x) == \E k \in 1..Len(s) : s[k] = x

\* The sequences over S of length at most n
RECURSIVE SeqsUpTo(_, _)
SeqsUpTo(S, n) ==
    IF n = 0 THEN { <<>> }
    ELSE LET shorter == SeqsUpTo(S, n - 1)
         IN  shorter \cup { Append(q, x) : q \in shorter, x \in S }

-----------------------------------------------------------------------------
(* The world outside the supervisor *)

\* The project directory a server reports
ReportedDir(l) ==
    IF l.kind = "ext" THEN extDir
    ELSE IF l.kind = "child" THEN children[l.id].dir
    ELSE <<>>

\* The answers GET /config can get: 0 stands for a request that raised
\* (connection refused, timeout)
ConfigResponses ==
    IF listener.kind = "none" THEN {0} ELSE {200, 500, 0}

\* The answers GET /project/current can get
ProjectResponses ==
    IF listener.kind = "none" THEN {NoResp}
    ELSE { [status |-> 200, body |-> ReportedDir(listener)],
           [status |-> 200, body |-> None],
           [status |-> 200, body |-> BadJson],
           [status |-> 500, body |-> None],
           NoResp }

\* A process that has exited: its record keeps no directory
Dead == [st |-> "dead", dir |-> <<>>]

Alive(i) == i \in 1..Len(children) /\ children[i].st # "dead"

\* The children and the port once process i has exited
ChildrenWithout(i) == [children EXCEPT ![i] = Dead]
ListenerWithout(i) == IF listener = ChildListener(i) THEN NoListener ELSE listener

\* A starting child binds the port once it is free
ChildReady(i) ==
    /\ i \in 1..Len(children)
    /\ children[i].st = "starting"
    /\ listener = NoListener
    /\ children' = [children EXCEPT ![i].st = "listening"]
    /\ listener' = ChildListener(i)
    /\ UNCHANGED <<sup, extDir, pc, op, desired, attempt, ret, cause, hist>>

\* A child exits on its own (a crash, or the port was taken)
ChildExits(i) ==
    /\ Alive(i)
    /\ children' = ChildrenWithout(i)
    /\ listener' = ListenerWithout(i)
    /\ UNCHANGED <<sup, extDir, pc, op, desired, attempt, ret, cause, hist>>

\* A server is started out-of-band on the free port
ExtStarts(d) ==
    /\ listener = NoListener
    /\ listener' = ExtListener
    /\ extDir' = d
    /\ UNCHANGED <<sup, children, pc, op, desired, attempt, ret, cause, hist>>

ExtExits ==
    /\ listener = ExtListener
    /\ listener' = NoListener
    /\ extDir' = <<>>
    /\ UNCHANGED <<sup, children, pc, op, desired, attempt, ret, cause, hist>>

-----------------------------------------------------------------------------
(* OpenCodeServer: the helpers *)

\* for path in candidates: if path and os.path.isdir(path): return path
RECURSIVE FirstDir(_, _)
FirstDir(candidates, dirs) ==
    IF candidates = <<>> THEN None
    ELSE IF Truthy(Head(candidates)) /\ Head(candidates) \in dirs
         THEN Head(candidates)
    ELSE FirstDir(Tail(candidates), dirs)

FirstCandidateSet(e) ==
    LET set == SelectSeq(<<e.MARS_WORKDIR, e.OPENCODE_WORKDIR, e.MARS_LAUNCH_CWD, e.PWD>>,
                         Truthy)
    IN  IF set # <<>> THEN Head(set)
        ELSE IF FallbackDir \in e.dirs THEN FallbackDir
        ELSE None

_resolve_workdir(e) ==
    LET candidates == <<e.MARS_WORKDIR, e.OPENCODE_WORKDIR, e.MARS_LAUNCH_CWD, e.PWD>>
        path == FirstDir(candidates, e.dirs)
    IN  IF path # None THEN path
        ELSE IF FallbackDir \in e.dirs THEN FallbackDir
        ELSE None

AnyResponse(response) == response # 0
\* return response.status_code == 200; no response is status 0
_check_connectivity(response) == response = 200

\* A comparison of the paths as written
CompareUnnormalized(desired_workdir, response) ==
    IF ~Truthy(desired_workdir) THEN TRUE
    ELSE IF response.status = 200 /\ response.body # BadJson
    THEN LET current_dir == IF response.body = None THEN <<>> ELSE response.body
         IN  desired_workdir = current_dir
    ELSE FALSE

\* A check that takes a directory it could not obtain for the desired one
AdoptUnobtained(desired_workdir, response) ==
    IF ~Truthy(desired_workdir) THEN TRUE
    ELSE IF response.status = 200 /\ response.body # BadJson
    THEN LET current_dir == IF response.body = None THEN <<>> ELSE response.body
             desired_norm == normpath(desired_workdir)
             current_norm == IF current_dir # <<>> THEN normpath(current_dir) ELSE <<>>
         IN  desired_norm = current_norm
    ELSE TRUE

_check_workdir_matches(desired_workdir, response) ==
    IF ~Truthy(desired_workdir) THEN TRUE
    ELSE IF response.status = 200 /\ response.body # BadJson
    THEN LET current_dir == IF response.body = None THEN <<>> ELSE response.body
             desired_norm == normpath(desired_workdir)
             current_norm == IF current_dir # <<>> THEN normpath(current_dir) ELSE <<>>
         IN  desired_norm = current_norm
    ELSE FALSE

\* _kill_external_server: the process holding the port gets SIGTERM; `dies`
\* says whether it exits on it (lsof may also fail or list nothing).
KilledChildren(dies) ==
    IF dies /\ listener.kind = "child" THEN ChildrenWithout(listener.id) ELSE children
KilledListener(dies) ==
    IF dies THEN NoListener ELSE listener
KilledExtDir(dies) ==
    IF dies /\ listener.kind = "ext" THEN <<>> ELSE extDir

-----------------------------------------------------------------------------
(* OpenCodeServer._find_opencode_binary *)

\* The absolute path of these components: Abs(<<"a", "b">>) is "/a/b"
RECURSIVE Abs(_)
Abs(comps) ==
    IF comps = <<>> THEN <<>> ELSE <<"/", Head(comps)>> \o Abs(Tail(comps))

opencode == <<"opencode">>

\* os.path.join(a, b), b relative
join(a, b) ==
    IF a = <<>> THEN b
    ELSE IF a[Len(a)] = "/" THEN a \o b
    ELSE a \o <<"/">> \o b

\* str.split(sep)
RECURSIVE split(_, _)
split(s, sep) ==
    IF s = <<>> THEN << <<>> >>
    ELSE IF Head(s) = sep THEN << <<>> >> \o split(Tail(s), sep)
    ELSE LET r == split(Tail(s), sep)
         IN  << <<Head(s)>> \o Head(r) >> \o Tail(r)

\* os.path.expanduser("~")
home == Abs(<<"home", "u">>)
\* os.defpath
defpath == Abs(<<"bin">>) \o <<":">> \o Abs(<<"usr", "bin">>)

\* Directories of the inputs
NvmBin == home \o Abs(<<".nvm", "versions", "node", "v18.0.0", "bin">>)
UsrLocalBin == Abs(<<"usr", "local", "bin">>)
BunBin == home \o Abs(<<".bun", "bin">>)
XBin == Abs(<<"x", "bin">>)

\* The paths the file system may hold something at; "opencode" is the one in
\* the current directory
Paths ==
    { opencode, join(NvmBin, opencode), join(UsrLocalBin, opencode),
      join(BunBin, opencode), join(XBin, opencode) }
FileSystems == [Paths -> {"none", "exec", "plain", "dir"}]

BinaryEnvirons ==
    [ NVM_BIN : {None, <<>>, NvmBin},
      PATH : { None, <<>>, XBin, UsrLocalBin \o <<":">> \o XBin, <<":">> \o XBin } ]

KindOf(path, fs) == IF path \in DOMAIN fs THEN fs[path] ELSE "none"
\* os.path.isfile(path)
isfile(path, fs) == KindOf(path, fs) \in {"exec", "plain"}
\* os.access(path, os.X_OK)
access_X_OK(path, fs) == KindOf(path, fs) \in {"exec", "dir"}

\* for path in candidates: if path and isfile(path) and access(path, X_OK): return path
RECURSIVE FirstExecutable(_, _)
FirstExecutable(candidates, fs) ==
    IF candidates = <<>> THEN None
    ELSE IF /\ Truthy(Head(candidates))
            /\ isfile(Head(candidates), fs)
            /\ access_X_OK(Head(candidates), fs)
         THEN Head(candidates)
    ELSE FirstExecutable(Tail(candidates), fs)

\* [os.path.join(d, cmd) for d in dirs]
JoinEach(dirs, cmd) == [k \in 1..Len(dirs) |-> join(dirs[k], cmd)]

\* shutil.which("opencode"): the PATH of the environment, or os.defpath
which(e, fs) ==
    LET path == IF e.PATH = None THEN defpath ELSE e.PATH
    IN  IF path = <<>> THEN None
        ELSE FirstExecutable(JoinEach(split(path, ":"), opencode), fs)

\* for path_dir in ...: if candidate not in candidates: candidates.append(candidate)
RECURSIVE AppendNew(_, _)
AppendNew(candidates, more) ==
    IF more = <<>> THEN candidates
    ELSE AppendNew(IF Has(candidates, Head(more)) THEN candidates
                   ELSE Append(candidates, Head(more)),
                   Tail(more))

_find_opencode_binary(e, fs) ==
    LET opencode_path == which(e, fs)
        candidates ==
            << join(home \o Abs(<<".nvm", "versions", "node", "v22.7.0", "bin">>), opencode),
               join(home \o Abs(<<".nvm", "versions", "node", "v20.0.0", "bin">>), opencode),
               join(home \o Abs(<<".nvm", "versions", "node", "v21.0.0", "bin">>), opencode),
               join(IF e.NVM_BIN = None THEN <<>> ELSE e.NVM_BIN, opencode),
               join(Abs(<<"usr", "local", "bin">>), opencode),
               join(home \o Abs(<<".npm-global", "bin">>), opencode),
               join(Abs(<<"opt", "homebrew", "bin">>), opencode),
               join(home \o Abs(<<".bun", "bin">>), opencode),
               join(home \o Abs(<<".cargo", "bin">>), opencode),
               join(home \o Abs(<<".local", "bin">>), opencode) >>
        path_env == IF e.PATH = None THEN <<>> ELSE e.PATH
        all == AppendNew(candidates, JoinEach(split(path_env, ":"), opencode))
        path == FirstExecutable(all, fs)
    IN  IF Truthy(opencode_path) THEN opencode_path
        ELSE IF path # None THEN path
        ELSE opencode

-----------------------------------------------------------------------------
(* OpenCodeServer.start *)

\* No call is in progress: callers serialize start() and stop()
Serial == \A d \in Callers : pc[d] = "idle"

Snapshot == [process |-> _process, running |-> _running]

\* The history of a call that begins
Begun(c, o) ==
    /\ pc[c] = "idle"
    /\ op' = [op EXCEPT ![c] = o]
    /\ pre' = [pre EXCEPT ![c] = Snapshot]

\* return v, from the return statement named k
Returns(c, v, k) ==
    /\ pc' = [pc EXCEPT ![c] = "ret"]
    /\ ret' = [ret EXCEPT ![c] = v]
    /\ cause' = [cause EXCEPT ![c] = k]

\* desired_workdir = self._resolve_workdir()
StartBegin(c) ==
    /\ Begun(c, "start")
    /\ Len(children) < MaxSpawn
    /\ \E e \in Environs : desired' = [desired EXCEPT ![c] = _resolve_workdir(e)]
    /\ pc' = [pc EXCEPT ![c] = "s_probe"]
    /\ UNCHANGED <<sup, world, attempt, ret, cause, log, probe0, seen, nprobe, cfg, prev>>

\* if self._check_connectivity():
StartProbe(c) ==
    /\ pc[c] = "s_probe"
    /\ \E r \in ConfigResponses :
          IF _check_connectivity(r)
          THEN /\ pc' = [pc EXCEPT ![c] = "s_workdir"]
               /\ probe0' = [probe0 EXCEPT ![c] = "ok"]
          ELSE /\ pc' = [pc EXCEPT ![c] = "s_flag"]
               /\ probe0' = [probe0 EXCEPT ![c] = "fail"]
    /\ UNCHANGED <<sup, world, op, desired, attempt, ret, cause, log, pre, seen,
                   nprobe, cfg, prev>>

\* The answer names a project directory
Readable(r) == r.status = 200 /\ r.body \notin {None, BadJson, <<>>}

\* if self._check_workdir_matches(desired_workdir): self._running = True; return True
\* The history keeps the answer until the next step, and of a refusal whether
\* the answer named a directory ("differs") or none ("unreadable").
StartCheckWorkdir(c) ==
    /\ pc[c] = "s_workdir"
    /\ \E r \in (IF Truthy(desired[c]) THEN ProjectResponses ELSE {NoResp}) :
          /\ seen' = [seen EXCEPT ![c] = r]
          /\ IF _check_workdir_matches(desired[c], r)
             THEN /\ _running' = TRUE
                  /\ Returns(c, TRUE, "adopted")
                  /\ UNCHANGED log
             ELSE /\ pc' = [pc EXCEPT ![c] = "s_kill"]
                  /\ log' = [log EXCEPT ![c] =
                                Append(@, IF Readable(r) THEN "differs" ELSE "unreadable")]
                  /\ UNCHANGED <<_running, ret, cause>>
    /\ UNCHANGED <<_process, world, op, desired, attempt, pre, probe0, nprobe,
                   cfg, prev>>

\* else: self._kill_external_server()
StartKill(c) ==
    /\ pc[c] = "s_kill"
    /\ \E dies \in BOOLEAN :
          /\ children' = KilledChildren(dies)
          /\ listener' = KilledListener(dies)
          /\ extDir' = KilledExtDir(dies)
    /\ log' = [log EXCEPT ![c] = Append(@, "arbiter")]
    /\ seen' = [seen EXCEPT ![c] = NoResp]
    /\ pc' = [pc EXCEPT ![c] = "s_flag"]
    /\ UNCHANGED <<sup, op, desired, attempt, ret, cause, pre, probe0, nprobe,
                   cfg, prev>>

\* A start() that ignores the flag
NeverRunning(running) == FALSE

\* if self._running:
AlreadyRunning(running) == running

\* if self._running: return True
StartFlag(c) ==
    /\ pc[c] = "s_flag"
    /\ IF AlreadyRunning(_running)
       THEN Returns(c, TRUE, "flag")
       ELSE /\ pc' = [pc EXCEPT ![c] = "s_spawn"]
            /\ UNCHANGED <<ret, cause>>
    /\ UNCHANGED <<sup, world, op, desired, attempt, hist>>

\* What subprocess.Popen(cmd, ...) can do
PopenOutcomes == {"ok", "FileNotFoundError", "OSError"}

\* OpenCodeConfig as constructed by default
config == [host |-> <<"127.0.0.1">>, port |-> 4096]

\* str(n)
str(n) == <<ToString(n)>>

\* OpenCodeConfig.base_url
base_url(conf) == <<"http://">> \o conf.host \o <<":">> \o str(conf.port)

\* The environment and the files where start() runs: opencode is installed in
\* /usr/local/bin, which PATH does not name
StartEnviron == [NVM_BIN |-> None, PATH |-> XBin]
StartFiles == [p \in Paths |-> IF p = join(UsrLocalBin, opencode) THEN "exec" ELSE "none"]

\* A command that never names the working directory
CommandWithoutWorkdir(opencode_bin, conf, workdir) ==
    <<opencode_bin, <<"serve">>, <<"--port">>, str(conf.port), <<"--hostname">>, conf.host>>

\* cmd = [opencode_bin, "serve", "--port", str(self.config.port), "--hostname",
\*        self.config.host]; if workdir: cmd.append(workdir)
LaunchCommand(opencode_bin, conf, workdir) ==
    <<opencode_bin, <<"serve">>, <<"--port">>, str(conf.port), <<"--hostname">>, conf.host>>
    \o (IF Truthy(workdir) THEN <<workdir>> ELSE <<>>)

\* The child process a successful Popen(cmd, cwd=workdir or None) creates
NewChild(cmd, workdir) ==
    [st |-> "starting", dir |-> IF Truthy(workdir) THEN workdir ELSE CwdDir,
     cmd |-> cmd]

\* A spawn that keeps a handle it already has
KeptHandle(old, new) == IF old # NoProcess THEN old ELSE new

\* self._process = subprocess.Popen(...): the new child replaces the handle
AssignedHandle(old, new) == new

\* self._process = subprocess.Popen(cmd, ...), and the except clauses
StartSpawn(c) ==
    /\ pc[c] = "s_spawn"
    /\ \E o \in PopenOutcomes :
          IF o = "ok"
          THEN /\ LET opencode_bin == _find_opencode_binary(StartEnviron, StartFiles)
                        cmd == LaunchCommand(opencode_bin, config, desired[c])
                    IN  children' = Append(children, NewChild(cmd, desired[c]))
               /\ _process' = AssignedHandle(_process, Len(children) + 1)
               /\ log' = [log EXCEPT ![c] = Append(@, "spawn")]
               /\ attempt' = [attempt EXCEPT ![c] = 0]
               /\ pc' = [pc EXCEPT ![c] = "s_poll"]
               /\ UNCHANGED <<ret, cause>>
          ELSE /\ log' = [log EXCEPT ![c] = Append(@, "spawn_failed")]
               /\ Returns(c, FALSE, o)
               /\ UNCHANGED <<_process, children, attempt>>
    /\ UNCHANGED <<_running, listener, extDir, op, desired, pre, probe0, seen,
                   nprobe, cfg, prev>>

\* A polling loop that runs once more
PollOnceMore(a) == a <= max_attempts

\* for attempt in range(max_attempts):
PollMore(a) == a < max_attempts

\* if self._check_connectivity(): self._running = True; return True
\* time.sleep(0.5)
StartPoll(c) ==
    /\ pc[c] = "s_poll"
    /\ PollMore(attempt[c])
    /\ nprobe' = [nprobe EXCEPT ![c] = @ + 1]
    /\ \E r \in ConfigResponses :
          IF _check_connectivity(r)
          THEN /\ _running' = TRUE
               /\ Returns(c, TRUE, "ready")
               /\ UNCHANGED attempt
          ELSE /\ attempt' = [attempt EXCEPT ![c] = @ + 1]
               /\ UNCHANGED <<_running, pc, ret, cause>>
    /\ UNCHANGED <<_process, world, op, desired, log, pre, probe0, seen, cfg, prev>>

\* logger.error("Server failed to start within timeout"); return False
StartTimeout(c) ==
    /\ pc[c] = "s_poll"
    /\ ~PollMore(attempt[c])
    /\ Returns(c, FALSE, "timeout")
    /\ UNCHANGED <<sup, world, op, desired, attempt, hist>>

-----------------------------------------------------------------------------
(* OpenCodeServer.stop *)

\* if self._process:
Owned(p) == p # NoProcess

\* A stop() that keeps the handle
KeptProcess(p) == p

\* self._process = None
ClearedProcess(p) == NoProcess

\* self._running = False
ClearedRunning(r) == FALSE

\* if self._process: self._process.terminate()
StopBegin(c) ==
    /\ Begun(c, "stop")
    /\ IF Owned(_process)
       THEN /\ log' = [log EXCEPT ![c] = <<"terminate">>]
            /\ pc' = [pc EXCEPT ![c] = "t_wait"]
            /\ UNCHANGED <<ret, cause>>
       ELSE /\ Returns(c, TRUE, "stopped")
            /\ UNCHANGED log
    /\ UNCHANGED <<sup, world, desired, attempt, probe0, seen, nprobe, cfg, prev>>

\* A wait that force-kills whatever the wait said
KillAlways(exited) == IF exited THEN <<"wait", "kill">> ELSE <<"wait_timeout", "kill">>

\* try: self._process.wait(timeout=5)
\* except subprocess.TimeoutExpired: self._process.kill()
Waited(exited) == IF exited THEN <<"wait">> ELSE <<"wait_timeout", "kill">>

\* self._process.wait(timeout=5), self._process.kill() when it times out;
\* self._process = None; self._running = False; return True
StopWait(c) ==
    /\ pc[c] = "t_wait"
    /\ \E exited \in (IF Alive(_process) THEN BOOLEAN ELSE {TRUE}) :
          log' = [log EXCEPT ![c] = @ \o Waited(exited)]
    /\ children' = ChildrenWithout(_process)
    /\ listener' = ListenerWithout(_process)
    /\ _process' = ClearedProcess(_process)
    /\ _running' = ClearedRunning(_running)
    /\ Returns(c, TRUE, "stopped")
    /\ UNCHANGED <<extDir, op, desired, attempt, pre, probe0, seen, nprobe, cfg, prev>>

-----------------------------------------------------------------------------
(* OpenCodeServer.is_running *)

\* An is_running() that trusts the flag
CachedRunning(response, running) == running

\* return self._check_connectivity()
is_running(response, running) == _check_connectivity(response)

IsRunning(c) ==
    /\ Begun(c, "is_running")
    /\ \E r \in ConfigResponses :
          /\ cfg' = [cfg EXCEPT ![c] = r]
          /\ Returns(c, is_running(r, _running), "probed")
    /\ UNCHANGED <<sup, world, desired, attempt, log, probe0, seen, nprobe, prev>>

-----------------------------------------------------------------------------
(* MarsAPI: what the GUI gets *)

\* return {"success": success, "error": None}
start_server(success) == [success |-> success, error |-> None]

\* return {"success": success, "error": None}
stop_server(success) == [success |-> success, error |-> None]

\* What the GUI gets from a call of operation o that returned v
Result(o, v) == IF o = "start" THEN start_server(v) ELSE stop_server(v)

\* The processes the call has spawned
RECURSIVE Spawns(_)
Spawns(l) ==
    IF l = <<>> THEN 0
    ELSE (IF Head(l) = "spawn" THEN 1 ELSE 0) + Spawns(Tail(l))

\* The call returns to its caller
Return(c) ==
    /\ pc[c] = "ret"
    /\ pc' = [pc EXCEPT ![c] = "idle"]
    /\ prev' = IF op[c] \in {"start", "stop"}
               THEN [op |-> op[c], cause |-> cause[c], api |-> Result(op[c], ret[c]),
                     spawns |-> Spawns(log[c])]
               ELSE prev
    /\ op' = [op EXCEPT ![c] = "none"]
    /\ desired' = [desired EXCEPT ![c] = None]
    /\ attempt' = [attempt EXCEPT ![c] = 0]
    /\ ret' = [ret EXCEPT ![c] = FALSE]
    /\ cause' = [cause EXCEPT ![c] = "none"]
    /\ log' = [log EXCEPT ![c] = <<>>]
    /\ pre' = [pre EXCEPT ![c] = NoPre]
    /\ probe0' = [probe0 EXCEPT ![c] = "none"]
    /\ seen' = [seen EXCEPT ![c] = NoResp]
    /\ nprobe' = [nprobe EXCEPT ![c] = 0]
    /\ cfg' = [cfg EXCEPT ![c] = 0]
    /\ UNCHANGED <<sup, world>>

-----------------------------------------------------------------------------
(* OpenCodeServer._find_opencode_binary, called on its own *)

\* A call of _find_opencode_binary in some environment
FindBinary ==
    /\ helper = "none"
    /\ \E e \in BinaryEnvirons, fs \in FileSystems :
          /\ given' = [env |-> e, fs |-> fs]
          /\ result' = [value |-> _find_opencode_binary(e, fs), raised |-> FALSE]
    /\ helper' = "_find_opencode_binary"
    /\ UNCHANGED besideHelpers

-----------------------------------------------------------------------------
(* The other helpers, called on their own *)

WorkdirValues == {None, <<>>, DirA, DirB}
WorkdirEnvirons ==
    [ MARS_WORKDIR : WorkdirValues, OPENCODE_WORKDIR : WorkdirValues,
      MARS_LAUNCH_CWD : WorkdirValues, PWD : WorkdirValues,
      dirs : SUBSET {DirA, DirB, FallbackDir} ]

\* A call of _resolve_workdir in some environment
ResolveWorkdir ==
    /\ helper = "none"
    /\ \E e \in WorkdirEnvirons :
          /\ given' = e
          /\ result' = [value |-> _resolve_workdir(e), raised |-> FALSE]
    /\ helper' = "_resolve_workdir"
    /\ UNCHANGED besideHelpers

\* What requests.get(.../config, timeout=1) does: it raises, or it returns a
\* response with a status code
ProbeAnswers ==
    { [error |-> x, status |-> 0] : x \in {"ConnectionError", "Timeout"} }
    \cup { [error |-> "none", status |-> n] : n \in {200, 201, 204, 301, 404, 500} }

\* A call of _check_connectivity: one GET, and the bare except
CheckConnectivity ==
    /\ helper = "none"
    /\ \E answer \in ProbeAnswers :
          /\ given' = answer
          /\ result' = [value |-> _check_connectivity(answer.status), raised |-> FALSE,
                        requests |-> 1]
    /\ helper' = "_check_connectivity"
    /\ UNCHANGED besideHelpers

\* What lsof reports and what os.kill(int(pid), SIGTERM) does for each PID:
\* the signal is sent, int() fails, or os.kill raises an OSError
KillOutcomes == {"ok", "ValueError", "PermissionError", "ProcessLookupError"}
LsofReports ==
    { [lsof |-> "FileNotFoundError", pids |-> <<>>] }
    \cup { [lsof |-> "ok", pids |-> q] : q \in SeqsUpTo(KillOutcomes, MaxPids) }

StopAtFailure(pids, k) ==
    LET failed == { j \in k..Len(pids) : pids[j] # "ok" }
        until == IF failed = {} THEN Len(pids)
                 ELSE CHOOSE j \in failed : \A i \in failed : j <= i
    IN  { j \in k..until : pids[j] # "ValueError" }
\* for pid in pids: try: os.kill(int(pid), SIGTERM) except (ValueError, OSError):
\* the PIDs os.kill was called with, from the k-th on
RECURSIVE Signalled(_, _)
Signalled(pids, k) ==
    IF k > Len(pids) THEN {}
    ELSE (IF pids[k] = "ValueError" THEN {} ELSE {k}) \cup Signalled(pids, k + 1)

\* A call of _kill_external_server
KillExternal ==
    /\ helper = "none"
    /\ \E report \in LsofReports :
          /\ given' = report
          /\ result' = [raised |-> FALSE,
                        killed |-> IF report.lsof = "ok" THEN Signalled(report.pids, 1)
                                   ELSE {},
                        slept |-> report.lsof = "ok" /\ report.pids # <<>>]
    /\ helper' = "_kill_external_server"
    /\ UNCHANGED besideHelpers

\* No helper was called
NotCalled ==
    /\ helper = "none"
    /\ given = <<>>
    /\ result = <<>>

-----------------------------------------------------------------------------
(* The event stream: what the peer sends *)

\* JSON values.  Every value is a record with a kind; an object carries its
\* members as a function from keys to values.
JNull == [kind |-> "null"]
JString(s) == [kind |-> "string", s |-> s]
JArray == [kind |-> "array"]
JObject(members) == [kind |-> "object", members |-> members]

MessageInfo == JObject([k \in {"id"} |-> JString("m1")])
Updated ==
    JObject([k \in {"type", "payload"} |->
                IF k = "type" THEN JString("message.updated") ELSE MessageInfo])
NullPayload ==
    JObject([k \in {"type", "payload"} |->
                IF k = "type" THEN JString("ping") ELSE JNull])
Connected == JObject([k \in {"type"} |-> JString("server.connected")])

\* The text after a field name: nothing, text that is not JSON, or the JSON
\* text of a value.
NoText == [kind |-> "empty", value |-> JNull]
Garbage == [kind |-> "garbage", value |-> JNull]
JsonText(v) == [kind |-> "json", value |-> v]

\* A line as received: its bytes decode as UTF-8 or do not, it may begin with
\* white space, then a prefix and the rest.  The line terminator is not kept.
Line(prefix, rest) ==
    [bytes |-> "utf8", lead |-> FALSE, prefix |-> prefix, rest |-> rest]

Blank == Line("", NoText)
StatusLine == Line("HTTP/1.1 ", Garbage)
DataHeader == Line("data: ", JsonText(Connected))
DataUpdated == Line("data: ", JsonText(Updated))
DataNullPayload == Line("data: ", JsonText(NullPayload))
DataConnected == Line("data: ", JsonText(Connected))
DataGarbage == Line("data: ", Garbage)
DataArray == Line("data: ", JsonText(JArray))
DataIndented == [DataConnected EXCEPT !.lead = TRUE]
DataNotUtf8 == [DataGarbage EXCEPT !.bytes = "invalid"]
EventField == Line("event: ", Garbage)
CommentNotUtf8 == [Line(": ", Garbage) EXCEPT !.bytes = "invalid"]

HeaderBlocks == { <<StatusLine, Blank>>, <<StatusLine, DataHeader, Blank>>, <<StatusLine>> }
BodyLines ==
    { DataUpdated, DataNullPayload, DataConnected, DataGarbage, DataArray,
      DataIndented, DataNotUtf8, EventField, CommentNotUtf8, Blank }

Streams == { h \o b : h \in HeaderBlocks, b \in SeqsUpTo(BodyLines, MaxLines) }

-----------------------------------------------------------------------------
(* OpenCodeClient.listen_events *)

\* header_line in (b"\r\n", b"\n", b""): the line is empty as received
EndsHeaders(line) == line = Blank

\* line.decode("utf-8") gives the text, or raises UnicodeDecodeError
Decodes(line) == line.bytes = "utf8"

\* str.strip(): leading white space goes, and so does the space of a "data: "
\* that nothing follows
strip(line) ==
    [line EXCEPT !.lead = FALSE,
                 !.prefix = IF line.prefix = "data: " /\ line.rest = NoText
                            THEN "data:" ELSE line.prefix]

\* line.startswith("data: ")
startswith_data(line) == ~line.lead /\ line.prefix = "data: "

\* json.loads(data_str): the value, or JSONDecodeError
json_loads(text) ==
    IF text.kind = "json" THEN [ok |-> TRUE, value |-> text.value]
    ELSE [ok |-> FALSE, value |-> JNull]

\* data.get(...) exists on a dict only; on any other value it is an AttributeError
HasGet(data) == data.kind = "object"

payload_if_truthy(data) ==
    IF "payload" \in DOMAIN data.members /\ data.members["payload"] # JNull
    THEN data.members["payload"] ELSE data
\* if "payload" in data: yield data["payload"], else: yield data
payload_or_data(data) ==
    IF "payload" \in DOMAIN data.members THEN data.members["payload"] ELSE data

Skip == [kind |-> "skip", exc |-> "none", data |-> JNull, event |-> JNull]
Raise(exc) == [kind |-> "raise", exc |-> exc, data |-> JNull, event |-> JNull]
Yield(data) ==
    [kind |-> "yield", exc |-> "none", data |-> data, event |-> payload_or_data(data)]

\* The body of the reading loop for one line that was received
ProcessLine(raw) ==
    IF ~Decodes(raw) THEN Raise("UnicodeDecodeError")
    ELSE LET line == strip(raw)
         IN  IF ~startswith_data(line) THEN Skip
             ELSE LET parsed == json_loads(line.rest)
                  IN  IF ~parsed.ok THEN Skip
                      ELSE IF ~HasGet(parsed.value) THEN Raise("AttributeError")
                      ELSE Yield(parsed.value)

\* except Exception: GeneratorExit is a BaseException and passes it by
Caught(exc) == exc \in {"OSError", "UnicodeDecodeError", "AttributeError"}

LeakSocket(s) == s
\* finally: sock.close(), whose own failure (no socket was made) is swallowed
Finally(s) == IF s = "open" THEN "closed" ELSE s

Reconnect == "created"
\* if not line: break, and the function ends after the finally clause
AfterBreak == "done"

\* The generator leaves its try statement with exception exc ("none": by break)
Finish(why, exc) ==
    /\ gen' = "done"
    /\ sock' = Finally(sock)
    /\ ended' = why
    /\ escaped' = (exc \notin {"none", "GeneratorExit"} /\ ~Caught(exc))

ConnectOutcomes == {"ok", "socket_failed", "connect_failed", "send_failed"}

\* The consumer's first next(): socket(), connect(), sendall(), makefile()
GenStart ==
    /\ gen = "created"
    /\ \E outcome \in ConnectOutcomes :
          /\ nconn' = IF outcome \in {"ok", "send_failed"} THEN nconn + 1 ELSE nconn
          /\ IF outcome = "ok"
             THEN /\ gen' = "headers"
                  /\ sock' = "open"
                  /\ UNCHANGED <<ended, escaped>>
             ELSE /\ gen' = "done"
                  /\ sock' = Finally(IF outcome = "socket_failed" THEN sock ELSE "open")
                  /\ ended' = outcome
                  /\ escaped' = ~Caught("OSError")
    /\ UNCHANGED <<stream, pos, emitted, decoded, polled, besideEvents>>

\* One turn of the loop that skips the response headers
ReadHeader ==
    /\ gen = "headers"
    /\ \/ /\ Finish("read_error", "OSError")
          /\ UNCHANGED pos
       \/ /\ pos <= Len(stream)
          /\ pos' = pos + 1
          /\ gen' = IF EndsHeaders(stream[pos]) THEN "body" ELSE "headers"
          /\ UNCHANGED <<sock, ended, escaped>>
       \/ /\ pos > Len(stream)
          /\ gen' = "body"
          /\ UNCHANGED <<pos, sock, ended, escaped>>
    /\ UNCHANGED <<stream, nconn, emitted, decoded, polled, besideEvents>>

\* One turn of the loop that reads the events, up to its yield
ReadLine ==
    /\ gen = "body"
    /\ \/ /\ Finish("read_error", "OSError")
          /\ UNCHANGED <<pos, emitted, decoded>>
       \/ /\ pos > Len(stream)
          /\ gen' = AfterBreak
          /\ sock' = Finally(sock)
          /\ ended' = "eof"
          /\ UNCHANGED <<pos, escaped, emitted, decoded>>
       \/ /\ pos <= Len(stream)
          /\ pos' = pos + 1
          /\ LET did == ProcessLine(stream[pos])
             IN  CASE did.kind = "skip" ->
                        UNCHANGED <<gen, sock, ended, escaped, emitted, decoded>>
                   [] did.kind = "raise" ->
                        Finish("exception", did.exc) /\ UNCHANGED <<emitted, decoded>>
                   [] did.kind = "yield" ->
                        /\ gen' = "yielded"
                        /\ emitted' = Append(emitted, did.event)
                        /\ decoded' = Append(decoded, did.data)
                        /\ UNCHANGED <<sock, ended, escaped>>
    /\ UNCHANGED <<stream, nconn, polled, besideEvents>>

\* The consumer's next() after an event
Resume ==
    /\ gen = "yielded"
    /\ gen' = "body"
    /\ UNCHANGED <<stream, pos, sock, nconn, emitted, decoded, ended, escaped, polled, besideEvents>>

\* The consumer's close(): GeneratorExit is raised at the yield; a generator
\* that never ran just ends
Cancel ==
    /\ gen \in {"created", "yielded"}
    /\ Finish("cancel", "GeneratorExit")
    /\ UNCHANGED <<stream, pos, nconn, emitted, decoded, polled, besideEvents>>

\* The consumer's next() on the finished generator: StopIteration
Exhausted ==
    /\ gen = "done"
    /\ ~polled
    /\ polled' = TRUE
    /\ UNCHANGED <<stream, pos, gen, sock, nconn, emitted, decoded, ended, escaped, besideEvents>>

\* The generator object as listen_events() returns it: none of its code has run
Created ==
    /\ pos = 1
    /\ gen = "created"
    /\ sock = "unbound"
    /\ nconn = 0
    /\ emitted = <<>>
    /\ decoded = <<>>
    /\ ended = "none"
    /\ escaped = FALSE
    /\ polled = FALSE

-----------------------------------------------------------------------------
(* OpenCodeClient._request *)

\* Python values are the JSON values, with None for null, and the booleans
JTrue == [kind |-> "true"]
JFalse == [kind |-> "false"]
PyBool(b) == IF b THEN JTrue ELSE JFalse

\* bool(v), for the values of the model
PyTruthy(v) ==
    /\ v.kind \notin {"null", "false"}
    /\ v # JString("")
    /\ v.kind = "object" => DOMAIN v.members # {}

SessionS1 == JObject([k \in {"id"} |-> JString("s1")])

\* What requests.request does: it raises (net), or returns a response
ConnectionFailures ==
    { [net |-> x, status |-> 0, body |-> NoText] : x \in {"ConnectionError", "Timeout"} }
Responses ==
    [ net : {"none"}, status : {200, 304, 404, 500},
      body : { NoText, Garbage, JsonText(SessionS1), JsonText(Connected),
               JsonText(JArray) } ]
Replies == ConnectionFailures \cup Responses

Returned(value) == [raised |-> FALSE, value |-> value]
Raised(message) == [raised |-> TRUE, value |-> JString(message)]

RequestUnchecked(reply) ==
    IF reply.net # "none" THEN Raised("OpenCode API error")
    ELSE IF reply.body = NoText THEN Returned(JTrue)
    ELSE IF reply.body.kind = "json" THEN Returned(reply.body.value)
    ELSE Returned(JString("response.text"))
\* requests.request, raise_for_status (4xx and 5xx raise HTTPError), then the
\* JSON of the content, True for no content, the text if it is not JSON
_request(reply) ==
    IF reply.net # "none" THEN Raised("OpenCode API error")
    ELSE IF reply.status \in 400..599 THEN Raised("OpenCode API error")
    ELSE IF reply.body = NoText THEN Returned(JTrue)
    ELSE IF reply.body.kind = "json" THEN Returned(reply.body.value)
    ELSE Returned(JString("response.text"))

\* value.get("id"): AttributeError unless value is a dict
get_id(value) ==
    IF value.kind # "object" THEN Raised("AttributeError")
    ELSE Returned(IF "id" \in DOMAIN value.members THEN value.members["id"] ELSE JNull)

-----------------------------------------------------------------------------
(* MarsAPI over the REST client *)

\* The operation called with its session_id argument, and the current session
\* id the call found
Call(o, session_id) ==
    [op |-> o, session_id |-> session_id, inner |-> TRUE,
     before |-> _current_session_id]
NoCallYet == [op |-> "none", session_id |-> JNull, inner |-> TRUE, before |-> JNull]

Request(method, path, sid, reply) ==
    [method |-> method, path |-> path, sid |-> sid, reply |-> reply]

\* The result dicts: success, the operation's value, error, and sessionId
Success(value) ==
    [dict |-> TRUE, success |-> JTrue, value |-> value, error |-> JNull,
     sessionId |-> JNull]
Failure(message) ==
    [dict |-> TRUE, success |-> JFalse, value |-> JNull, error |-> message,
     sessionId |-> JNull]
\* A return value that is no dict
Bare(value) ==
    [dict |-> FALSE, success |-> JNull, value |-> value, error |-> JNull,
     sessionId |-> JNull]
NoResult == Bare(JNull)

\* try: ... return {"success": True, ...} except Exception as e: return
\* {"success": False, ..., "error": str(e)}
Wrap(r) == IF r.raised THEN Failure(r.value) ELSE Success(r.value)

\* The result dict of start_server and stop_server
OfServer(r) ==
    [dict |-> TRUE, success |-> PyBool(r.success), value |-> JNull,
     error |-> IF r.error = None THEN JNull ELSE JString("str(e)"),
     sessionId |-> JNull]

\* The explicit session_id argument: absent, or a session
SessionArgs == {JNull, JString("s2")}

Endpoint(o) ==
    CASE o = "get_config" -> [method |-> "GET", path |-> "/config"]
      [] o = "list_sessions" -> [method |-> "GET", path |-> "/session"]
      [] o = "list_commands" -> [method |-> "GET", path |-> "/command"]
      [] o = "get_session" -> [method |-> "GET", path |-> "/session/{id}"]
      [] o = "delete_session" -> [method |-> "DELETE", path |-> "/session/{id}"]
      [] o = "create_session" -> [method |-> "POST", path |-> "/session"]
      [] o = "send_message" -> [method |-> "POST", path |-> "/session/{id}/message"]
      [] o = "list_messages" -> [method |-> "GET", path |-> "/session/{id}/message"]
      [] o = "list_todos" -> [method |-> "GET", path |-> "/session/{id}/todo"]
      [] o = "abort_session" -> [method |-> "POST", path |-> "/session/{id}/abort"]
      [] o = "execute_command" -> [method |-> "POST", path |-> "/session/{id}/command"]

RequestOf(o, sid, reply) == Request(Endpoint(o).method, Endpoint(o).path, sid, reply)

\* A resolution that prefers the current session to the one given
CurrentFirst(session_id) ==
    IF PyTruthy(_current_session_id) THEN _current_session_id ELSE session_id

\* sid = session_id or self._current_session_id
ResolveSid(session_id) ==
    IF PyTruthy(session_id) THEN session_id ELSE _current_session_id

GetOps == {"get_config", "list_sessions", "list_commands", "get_session"}

\* get_config, list_sessions, list_commands, get_session: one request, and its
\* value passed on
ApiGet(o) ==
    /\ called = NoCallYet
    /\ \E reply \in Replies :
          LET sid == IF o = "get_session" THEN JString("s2") ELSE JNull
          IN  /\ called' = Call(o, sid)
              /\ sent' = <<RequestOf(o, sid, reply)>>
              /\ returned' = Wrap(_request(reply))
    /\ UNCHANGED <<_current_session_id, besideApi>>

\* delete_session: return {"success": success, "error": None}
ApiDeleteSession ==
    /\ called = NoCallYet
    /\ \E reply \in Replies :
          LET sid == JString("s2")
              r == _request(reply)
          IN  /\ called' = Call("delete_session", sid)
              /\ sent' = <<RequestOf("delete_session", sid, reply)>>
              /\ returned' = IF r.raised THEN Failure(r.value)
                             ELSE [Success(JNull) EXCEPT !.success = r.value]
    /\ UNCHANGED <<_current_session_id, besideApi>>

EmptyList == [kind |-> "array", empty |-> TRUE]
OfSessionOps == {"list_messages", "list_todos", "abort_session"}

\* list_messages, list_todos, abort_session: the session is resolved first
ApiOfSession(o) ==
    /\ called = NoCallYet
    /\ \E session_id \in SessionArgs, reply \in Replies :
          LET sid == ResolveSid(session_id)
              r == _request(reply)
          IN  /\ called' = Call(o, session_id)
              /\ IF ~PyTruthy(sid)
                 THEN /\ sent' = <<>>
                      /\ returned' = IF o = "abort_session"
                                     THEN Failure(JString("No active session"))
                                     ELSE Success(EmptyList)
                 ELSE /\ sent' = <<RequestOf(o, sid, reply)>>
                      /\ returned' = IF r.raised THEN Failure(r.value)
                                     ELSE IF o = "abort_session"
                                     THEN [Success(JNull) EXCEPT !.success = r.value]
                                     ELSE Success(r.value)
    /\ UNCHANGED <<_current_session_id, besideApi>>

\* execute_command: the client's execute_command takes no model argument, so
\* the call with model=model is a TypeError before any request is made
ApiExecuteCommand ==
    /\ called = NoCallYet
    /\ \E session_id \in SessionArgs :
          /\ called' = Call("execute_command", session_id)
          /\ returned' = IF ~PyTruthy(ResolveSid(session_id))
                         THEN Failure(JString("No active session"))
                         ELSE Failure(JString("TypeError"))
    /\ sent' = <<>>
    /\ UNCHANGED <<_current_session_id, besideApi>>

\* create_session: the session's id becomes the current session id
ApiCreateSession ==
    /\ called = NoCallYet
    /\ \E reply \in Replies :
          LET session == _request(reply)
              id == get_id(session.value)
          IN  /\ called' = Call("create_session", JNull)
              /\ sent' = <<RequestOf("create_session", JNull, reply)>>
              /\ IF session.raised
                 THEN returned' = Failure(session.value) /\ UNCHANGED _current_session_id
                 ELSE IF id.raised
                 THEN returned' = Failure(id.value) /\ UNCHANGED _current_session_id
                 ELSE /\ _current_session_id' = id.value
                      /\ returned' = Success(session.value)
    /\ UNCHANGED besideApi

\* send_message: to the session given, else the current one, else a new one
ApiSendMessage ==
    /\ called = NoCallYet
    /\ \E session_id \in SessionArgs, created \in Replies, reply \in Replies :
          LET sid0 == ResolveSid(session_id)
              session == _request(created)
              id == get_id(session.value)
              sid == IF PyTruthy(sid0) THEN sid0 ELSE id.value
              response == _request(reply)
              creation == RequestOf("create_session", JNull, created)
              message == RequestOf("send_message", sid, reply)
          IN  /\ called' = Call("send_message", session_id)
              /\ IF ~PyTruthy(sid0) /\ session.raised
                 THEN /\ sent' = <<creation>>
                      /\ returned' = Failure(session.value)
                      /\ UNCHANGED _current_session_id
                 ELSE IF ~PyTruthy(sid0) /\ id.raised
                 THEN /\ sent' = <<creation>>
                      /\ returned' = Failure(id.value)
                      /\ UNCHANGED _current_session_id
                 ELSE /\ _current_session_id' =
                            IF PyTruthy(sid0) THEN _current_session_id ELSE sid
                      /\ IF ~PyTruthy(sid)
                         THEN /\ sent' = <<creation>>
                              /\ returned' = Failure(JString("Failed to resolve session id"))
                         ELSE /\ sent' = (IF PyTruthy(sid0) THEN <<>> ELSE <<creation>>)
                                         \o <<message>>
                              /\ returned' =
                                    IF response.raised THEN Failure(response.value)
                                    ELSE [Success(response.value) EXCEPT !.sessionId = sid]
    /\ UNCHANGED besideApi

\* start_server: what OpenCodeServer.start() returned goes into the dict
ApiStartServer ==
    /\ called = NoCallYet
    /\ \E success \in BOOLEAN :
          /\ called' = [Call("start_server", JNull) EXCEPT !.inner = success]
          /\ returned' = OfServer(start_server(success))
    /\ sent' = <<>>
    /\ UNCHANGED <<_current_session_id, besideApi>>

\* stop_server: OpenCodeServer.stop() returns True
ApiStopServer ==
    /\ called = NoCallYet
    /\ called' = Call("stop_server", JNull)
    /\ returned' = OfServer(stop_server(TRUE))
    /\ sent' = <<>>
    /\ UNCHANGED <<_current_session_id, besideApi>>

\* is_server_running: the probe's answer as it is
ApiIsServerRunning ==
    /\ called = NoCallYet
    /\ \E response \in {200, 500, 0} :
          LET running == is_running(response, _running)
          IN  /\ called' = [Call("is_server_running", JNull) EXCEPT !.inner = running]
              /\ returned' = Bare(PyBool(running))
    /\ sent' = <<>>
    /\ UNCHANGED <<_current_session_id, besideApi>>

\* The GUI has the result
ApiReturn ==
    /\ called # NoCallYet
    /\ called' = NoCallYet
    /\ sent' = <<>>
    /\ returned' = NoResult
    /\ UNCHANGED <<_current_session_id, besideApi>>

\* MarsAPI.__init__, no operation called
ApiIdle ==
    /\ _current_session_id = JNull
    /\ called = NoCallYet
    /\ sent = <<>>
    /\ returned = NoResult

-----------------------------------------------------------------------------
(* The specification: one caller at a time *)

\* No child was spawned and no caller is inside the supervisor
NoCall ==
    /\ children = <<>>
    /\ \/ listener = NoListener /\ extDir = <<>>
       \/ listener = ExtListener /\ extDir \in ExtDirs
    /\ pc = [c \in Callers |-> "idle"]
    /\ op = [c \in Callers |-> "none"]
    /\ desired = [c \in Callers |-> None]
    /\ attempt = [c \in Callers |-> 0]
    /\ ret = [c \in Callers |-> FALSE]
    /\ cause = [c \in Callers |-> "none"]
    /\ log = [c \in Callers |-> <<>>]
    /\ pre = [c \in Callers |-> NoPre]
    /\ probe0 = [c \in Callers |-> "none"]
    /\ seen = [c \in Callers |-> NoResp]
    /\ nprobe = [c \in Callers |-> 0]
    /\ cfg = [c \in Callers |-> 0]
    /\ prev = NoPrev

\* The supervisor as constructed, nothing called yet
Constructed ==
    /\ _process = NoProcess
    /\ _running = FALSE
    /\ NoCall

Init ==
    /\ Constructed
    /\ stream = <<>>
    /\ Created
    /\ NotCalled
    /\ ApiIdle

\* A return takes no time: the world moves before it or after it
Returning == \E c \in Callers : pc[c] = "ret"

Next ==
    \/ \E i \in 1..MaxSpawn : ~Returning /\ ChildReady(i) /\ UNCHANGED besideSupervisor
    \/ \E i \in 1..MaxSpawn : ~Returning /\ ChildExits(i) /\ UNCHANGED besideSupervisor
    \/ \E d \in ExtDirs : ~Returning /\ ExtStarts(d) /\ UNCHANGED besideSupervisor
    \/ ~Returning /\ ExtExits /\ UNCHANGED besideSupervisor
    \/ \E c \in SerialCallers : Serial /\ StartBegin(c) /\ UNCHANGED besideSupervisor
    \/ \E c \in SerialCallers : Serial /\ StopBegin(c) /\ UNCHANGED besideSupervisor
    \/ \E c \in SerialCallers : Serial /\ IsRunning(c) /\ UNCHANGED besideSupervisor
    \/ \E c \in SerialCallers : StartProbe(c) /\ UNCHANGED besideSupervisor
    \/ \E c \in SerialCallers : StartCheckWorkdir(c) /\ UNCHANGED besideSupervisor
    \/ \E c \in SerialCallers : StartKill(c) /\ UNCHANGED besideSupervisor
    \/ \E c \in SerialCallers : StartFlag(c) /\ UNCHANGED besideSupervisor
    \/ \E c \in SerialCallers : StartSpawn(c) /\ UNCHANGED besideSupervisor
    \/ \E c \in SerialCallers : StartPoll(c) /\ UNCHANGED besideSupervisor
    \/ \E c \in SerialCallers : StartTimeout(c) /\ UNCHANGED besideSupervisor
    \/ \E c \in SerialCallers : StopWait(c) /\ UNCHANGED besideSupervisor
    \/ \E c \in SerialCallers : Return(c) /\ UNCHANGED besideSupervisor

Spec == Init /\ [][Next]_vars

-----------------------------------------------------------------------------
(* The specification of two callers that do not wait for each other *)

\* No call has returned yet: a call that begins now overlaps the others
Overlapping == prev = NoPrev

\* The directories the overlapping callers resolve
ConcurrentDirs == {None, DirA}

NextConcurrent ==
    \/ \E i \in 1..MaxSpawn : ~Returning /\ ChildReady(i) /\ UNCHANGED besideSupervisor
    \/ \E i \in 1..MaxSpawn : ~Returning /\ ChildExits(i) /\ UNCHANGED besideSupervisor
    \/ \E c \in Callers :
          /\ Overlapping
          /\ StartBegin(c)
          /\ desired'[c] \in ConcurrentDirs
          /\ UNCHANGED besideSupervisor
    \/ \E c \in Callers : Overlapping /\ StopBegin(c) /\ UNCHANGED besideSupervisor
    \/ \E c \in Callers : StartProbe(c) /\ UNCHANGED besideSupervisor
    \/ \E c \in Callers : StartCheckWorkdir(c) /\ UNCHANGED besideSupervisor
    \/ \E c \in Callers : StartKill(c) /\ UNCHANGED besideSupervisor
    \/ \E c \in Callers : StartFlag(c) /\ UNCHANGED besideSupervisor
    \/ \E c \in Callers : StartSpawn(c) /\ UNCHANGED besideSupervisor
    \/ \E c \in Callers : StartPoll(c) /\ UNCHANGED besideSupervisor
    \/ \E c \in Callers : StartTimeout(c) /\ UNCHANGED besideSupervisor
    \/ \E c \in Callers : StopWait(c) /\ UNCHANGED besideSupervisor
    \/ \E c \in Callers : Return(c) /\ UNCHANGED besideSupervisor

\* Nothing listens on the port when the callers arrive
InitConcurrent == Init /\ listener = NoListener

SpecConcurrent == InitConcurrent /\ [][NextConcurrent]_vars

-----------------------------------------------------------------------------
(* The specification of one call of listen_events and its consumer *)

InitEvents ==
    /\ Constructed
    /\ listener = NoListener
    /\ stream \in Streams
    /\ Created
    /\ NotCalled
    /\ ApiIdle

NextEvents ==
    \/ GenStart
    \/ ReadHeader
    \/ ReadLine
    \/ Resume
    \/ Cancel
    \/ Exhausted

SpecEvents == InitEvents /\ [][NextEvents]_vars

-----------------------------------------------------------------------------
(* The specification of one call of a helper, in any environment *)

InitHelpers ==
    /\ _process = NoProcess
    /\ _running \in BOOLEAN
    /\ NoCall
    /\ listener = NoListener
    /\ stream = <<>>
    /\ Created
    /\ NotCalled
    /\ ApiIdle

NextHelpers ==
    \/ FindBinary
    \/ ResolveWorkdir
    \/ CheckConnectivity
    \/ KillExternal

SpecHelpers == InitHelpers /\ [][NextHelpers]_vars

-----------------------------------------------------------------------------
(* The specification of the GUI calling MarsAPI, one operation at a time *)

InitApi ==
    /\ Constructed
    /\ listener = NoListener
    /\ stream = <<>>
    /\ Created
    /\ NotCalled
    /\ ApiIdle

NextApi ==
    \/ \E o \in GetOps : ApiGet(o)
    \/ ApiDeleteSession
    \/ \E o \in OfSessionOps : ApiOfSession(o)
    \/ ApiExecuteCommand
    \/ ApiCreateSession
    \/ ApiSendMessage
    \/ ApiStartServer
    \/ ApiStopServer
    \/ ApiIsServerRunning
    \/ ApiReturn

SpecApi == InitApi /\ [][NextApi]_vars

-----------------------------------------------------------------------------
(* Vocabulary of the properties *)

\* Caller c is at the return of operation o
Ret(c, o) == pc[c] = "ret" /\ op[c] = o

\* The server's answer lets start() adopt it: no directory is desired, or the
\* directory it reports is the desired one once both are normalized
Adoptable(d, r) == d = None \/ (Readable(r) /\ normpath(r.body) = normpath(d))

\* The call has made its workdir check and not yet forgotten its answer
Checked(c) == op[c] = "start" /\ probe0[c] = "ok" /\ pc[c] \in {"s_kill", "ret"}

\* The arbiter ran and a Popen followed it
ArbiterThenSpawn(l) ==
    \E i, j \in 1..Len(l) :
        i < j /\ l[i] = "arbiter" /\ l[j] \in {"spawn", "spawn_failed"}

\* The steps inside a call
CallStep(c) ==
    \/ StartProbe(c)
    \/ StartCheckWorkdir(c)
    \/ StartKill(c)
    \/ StartFlag(c)
    \/ StartSpawn(c)
    \/ StartPoll(c)
    \/ StartTimeout(c)
    \/ StopWait(c)

\* The steps a call can still take are at most Rank
Rank(p, a) ==
    CASE p = "s_probe" -> max_attempts + 6
      [] p = "s_workdir" -> max_attempts + 5
      [] p = "s_kill" -> max_attempts + 4
      [] p = "s_flag" -> max_attempts + 3
      [] p = "s_spawn" -> max_attempts + 2
      [] p = "s_poll" -> max_attempts + 1 - a
      [] p = "t_wait" -> 1
      [] OTHER -> 0

-----------------------------------------------------------------------------
(* C1: idempotent start *)

\* C1, as claimed: two consecutive start() calls with no stop() in between
\* spawn at most one process in total; and when the first returned True and
\* the server is reachable and reports the desired directory, the second
\* returns True without spawning.
C1_TwoStartsSpawnOnce ==
    \A c \in Callers :
        op[c] = "start" /\ prev.op = "start"
        => /\ prev.spawns + Spawns(log[c]) <= 1
           /\ (prev.api.success /\ Checked(c) /\ Adoptable(desired[c], seen[c])
               => Ret(c, "start") /\ ret[c] /\ Spawns(log[c]) = 0)

\* C1, amended: when the first of two consecutive start() calls returned
\* True, the two calls spawn at most one process in total, and the second
\* returns True without spawning when the server is reachable and reports the
\* desired directory.
C1_TwoStartsAfterSuccess ==
    \A c \in Callers :
        op[c] = "start" /\ prev.op = "start" /\ prev.api.success
        => /\ prev.spawns + Spawns(log[c]) <= 1
           /\ (Checked(c) /\ Adoptable(desired[c], seen[c])
               => Ret(c, "start") /\ ret[c] /\ Spawns(log[c]) = 0)

\* C1's case: the first start() spawned the server, the second adopted it
C1_Witness ==
    \E c \in Callers :
        /\ Ret(c, "start") /\ cause[c] = "adopted"
        /\ prev.op = "start" /\ prev.api.success /\ prev.spawns = 1
        /\ listener.kind = "child"

-----------------------------------------------------------------------------
(* C2: workdir mismatch triggers restart *)

\* C2, as claimed: a start() that found a reachable server reporting another
\* directory than the desired one has, when it returns, invoked the port
\* arbiter and then spawned, whatever the supervisor's state was before.
C2_MismatchRestarts ==
    \A c \in Callers :
        Ret(c, "start") /\ Has(log[c], "differs") => ArbiterThenSpawn(log[c])

-----------------------------------------------------------------------------
(* C3: bounded startup *)

C3_Bounded ==
    \A c \in Callers :
        /\ nprobe[c] <= max_attempts
        /\ (Ret(c, "start") /\ Spawns(log[c]) = 1 /\ ~ret[c]
            => nprobe[c] = max_attempts /\ cause[c] = "timeout")
        /\ (Ret(c, "start") /\ cause[c] = "timeout" => ~ret[c])
        /\ (pc[c] \notin {"idle", "ret"} => ENABLED CallStep(c))

C3_Progress ==
    \A c \in Callers :
        pc[c] \notin {"idle", "ret"} /\ <<pc[c], attempt[c]>>' # <<pc[c], attempt[c]>>
        => Rank(pc[c], attempt[c])' < Rank(pc[c], attempt[c])

\* C3: start() terminates on every path (inside a call a step is always
\* possible and every step lowers Rank); a start() whose spawned server never
\* answered returns False after exactly max_attempts failed probes, and the
\* polling loop never probes more than max_attempts times.
C3_BoundedStartup == [](C3_Bounded) /\ [][C3_Progress]_vars

\* C3's case: the polling loop ran out
C3_Witness ==
    \E c \in Callers :
        Ret(c, "start") /\ cause[c] = "timeout" /\ nprobe[c] = max_attempts

-----------------------------------------------------------------------------
(* C4: stop is idempotent and total *)

\* C4: stop() returns True in every state, and a stop() that follows a stop()
\* signals nothing and leaves _process and _running as the first left them.
C4_StopIdempotent ==
    \A c \in Callers :
        Ret(c, "stop")
        => /\ ret[c]
           /\ stop_server(ret[c]).success
           /\ (prev.op = "stop"
               => /\ log[c] = <<>>
                  /\ _process = pre[c].process
                  /\ _running = pre[c].running)

\* C4's case: a second stop() in a row, after a child had been spawned
C4_Witness ==
    \E c \in Callers :
        Ret(c, "stop") /\ prev.op = "stop" /\ Len(children) > 0

-----------------------------------------------------------------------------
(* C5, C6: what stop() leaves behind *)

\* C5, as claimed: every stop() invokes the port arbiter, and when it returns
\* nothing listens on the configured port.
C5_StopFreesPort ==
    \A c \in Callers :
        Ret(c, "stop") => Has(log[c], "arbiter") /\ listener = NoListener

\* C6, as claimed: when stop() returns, _process is None and _running is
\* False.
C6_StopLeavesStopped ==
    \A c \in Callers :
        Ret(c, "stop") => _process = NoProcess /\ _running = FALSE

-----------------------------------------------------------------------------
(* C7: a failed start leaves no degraded state *)

\* C7, as claimed: when start() returns False, _running is False and no
\* process handle is retained.
C7_FailedStartLeavesStopped ==
    \A c \in Callers :
        Ret(c, "start") /\ ~ret[c] => _running = FALSE /\ _process = NoProcess

-----------------------------------------------------------------------------
(* C8: adoption without spawning *)

\* C8: when start()'s connectivity probe succeeded and no directory is desired
\* or the server reports the desired one (after normalization), start() sets
\* _running, returns True, spawns nothing and leaves _process as it was.
C8_AdoptsWithoutSpawning ==
    \A c \in Callers :
        Checked(c) /\ Adoptable(desired[c], seen[c])
        => /\ Ret(c, "start") /\ ret[c]
           /\ _running
           /\ log[c] = <<>>
           /\ _process = pre[c].process

\* C8's case: an adoption that needed the normalization, by a supervisor
\* whose flag was not set
C8_Witness ==
    \E c \in Callers :
        /\ Ret(c, "start") /\ cause[c] = "adopted"
        /\ desired[c] # None /\ seen[c].body # desired[c]
        /\ ~pre[c].running

-----------------------------------------------------------------------------
(* C9: is_running is a live probe *)

\* C9: is_running() returns the outcome of the probe it made, whatever
\* _running and _process are, and changes neither.
C9_IsRunningProbes ==
    \A c \in Callers :
        Ret(c, "is_running")
        => /\ ret[c] = _check_connectivity(cfg[c])
           /\ _process = pre[c].process
           /\ _running = pre[c].running

\* C9's case: the probe and the cached flag disagree
C9_Witness ==
    \E c \in Callers :
        Ret(c, "is_running") /\ ret[c] # _running /\ _process # NoProcess

-----------------------------------------------------------------------------
(* C10: the two failures of start() *)

\* C10, as claimed: what start_server returns when the binary cannot be
\* executed differs from what it returns when the spawned server never
\* answered.
C10_FailuresDiffer ==
    \A c \in Callers :
        /\ Ret(c, "start")
        /\ prev.op = "start"
        /\ {cause[c], prev.cause} = {"FileNotFoundError", "timeout"}
        => start_server(ret[c]) # prev.api

-----------------------------------------------------------------------------
(* Vocabulary of the event stream's properties *)

\* The lines received after the empty line that ends the headers
Body(s) ==
    LET ends == { i \in 1..Len(s) : s[i] = Blank }
    IN  IF ends = {} THEN <<>>
        ELSE SubSeq(s, (CHOOSE i \in ends : \A j \in ends : i <= j) + 1, Len(s))

\* A line that starts with the data prefix (white space around the line set
\* aside, as the line terminator is) and holds a well-formed JSON object
ObjectLine(l) ==
    /\ l.bytes = "utf8"
    /\ l.prefix = "data: "
    /\ l.rest.kind = "json"
    /\ l.rest.value.kind = "object"

\* The objects of the object lines, in order
RECURSIVE Objects(_)
Objects(ls) ==
    IF ls = <<>> THEN <<>>
    ELSE (IF ObjectLine(Head(ls)) THEN <<Head(ls).rest.value>> ELSE <<>>)
         \o Objects(Tail(ls))

\* The peer sent all its lines and the generator finished, neither cancelled
\* nor cut off by a connection or read error
RanToTheEnd == gen = "done" /\ ended \in {"eof", "exception"}

-----------------------------------------------------------------------------
(* C11: one event per data line *)

\* C11: for any sequence of lines received after the headers, listen_events()
\* emits exactly one event per line that starts with the data prefix and holds
\* a well-formed JSON object, in the order received; no other line, a data line
\* of malformed JSON included, emits anything or stops the lines after it from
\* being emitted.
C11_OneEventPerObjectLine ==
    RanToTheEnd =>
        /\ Len(emitted) = Len(Objects(Body(stream)))
        /\ decoded = Objects(Body(stream))

-----------------------------------------------------------------------------
(* C12: payload unwrapping *)

\* C12: for every decoded event object, listen_events() emits the value of its
\* payload field when the object has one, whatever that value is, and the
\* whole object, unchanged, when it has none.
C12_PayloadUnwrapped ==
    /\ Len(emitted) = Len(decoded)
    /\ \A k \in 1..Len(emitted) :
          /\ decoded[k].kind = "object"
          /\ emitted[k] = IF "payload" \in DOMAIN decoded[k].members
                          THEN decoded[k].members["payload"]
                          ELSE decoded[k]

\* Three events were emitted: an object's payload, a null payload, and an
\* object without payload as it is
C12_Witness ==
    /\ gen = "done"
    /\ decoded = <<Updated, NullPayload, Connected>>
    /\ emitted = <<MessageInfo, JNull, Connected>>

-----------------------------------------------------------------------------
(* C13: the socket is released *)

\* C13: the event-stream socket is closed on every exit path of
\* listen_events(): the peer closing, a read or connection error, an exception
\* while a line is processed, and the consumer's cancellation at a yield.  The
\* only finished generator without a closed socket is one that never made one.
C13_SocketClosed ==
    gen = "done" =>
        \/ sock = "closed"
        \/ sock = "unbound" /\ nconn = 0 /\ ended \in {"socket_failed", "cancel"}

\* The consumer cancelled at a yield and the socket is closed
C13_Witness ==
    /\ gen = "done"
    /\ ended = "cancel"
    /\ Len(emitted) = 2
    /\ nconn = 1
    /\ sock = "closed"

-----------------------------------------------------------------------------
(* C14: no reconnection *)

C14_Once == nconn <= 1 /\ ~escaped /\ (ended \in {"eof", "read_error"} => gen = "done")

C14_Ended ==
    gen = "done" => gen' = "done" /\ emitted' = emitted /\ nconn' = nconn /\ sock' = sock

\* C14: each call of listen_events() opens at most one TCP connection; once
\* the peer closed or a read failed the sequence has ended, no exception
\* reaches the consumer, and from then on no event is emitted and no
\* connection is opened.
C14_NoReconnect == [](C14_Once) /\ [][C14_Ended]_vars

\* The peer closed after an event, and the consumer asked for one more
C14_Witness ==
    /\ gen = "done"
    /\ ended = "eof"
    /\ polled
    /\ nconn = 1
    /\ Len(emitted) = 1

-----------------------------------------------------------------------------
(* C15: binary discovery *)

\* The candidates in the order the claim gives: the versioned runtime
\* directories, the NVM_BIN directory when the variable names one, the global
\* install directories, the package-manager directories, each PATH directory
C15_Candidates(e) ==
    JoinEach(
        << home \o Abs(<<".nvm", "versions", "node", "v22.7.0", "bin">>),
           home \o Abs(<<".nvm", "versions", "node", "v20.0.0", "bin">>),
           home \o Abs(<<".nvm", "versions", "node", "v21.0.0", "bin">>) >>
        \o (IF Truthy(e.NVM_BIN) THEN <<e.NVM_BIN>> ELSE <<>>)
        \o << Abs(<<"usr", "local", "bin">>), home \o Abs(<<".npm-global", "bin">>) >>
        \o << Abs(<<"opt", "homebrew", "bin">>), home \o Abs(<<".bun", "bin">>),
              home \o Abs(<<".cargo", "bin">>), home \o Abs(<<".local", "bin">>) >>
        \o (IF Truthy(e.PATH) THEN split(e.PATH, ":") ELSE <<>>),
        opencode)

C15_Qualifying(e, fs) ==
    { k \in 1..Len(C15_Candidates(e)) : KindOf(C15_Candidates(e)[k], fs) = "exec" }

\* C15: _find_opencode_binary() never raises and returns a string: the path
\* the search-path lookup finds, else the first candidate in the fixed order
\* that is an existing executable file, else the bare name "opencode".
C15_FirstQualifyingCandidate ==
    helper = "_find_opencode_binary" =>
        /\ ~result.raised
        /\ result.value # None
        /\ LET e == given.env
               fs == given.fs
               found == which(e, fs)
               q == C15_Qualifying(e, fs)
           IN  IF found # None THEN result.value = found
               ELSE IF q = {} THEN result.value = opencode
               ELSE result.value = C15_Candidates(e)[CHOOSE k \in q : \A j \in q : k <= j]

-----------------------------------------------------------------------------
(* C16: workdir resolution order *)

C16_Candidates(e) ==
    <<e.MARS_WORKDIR, e.OPENCODE_WORKDIR, e.MARS_LAUNCH_CWD, e.PWD, FallbackDir>>

\* The candidates that are set and are existing directories
C16_Existing(e) ==
    { k \in 1..5 : C16_Candidates(e)[k] # None /\ C16_Candidates(e)[k] \in e.dirs }

\* C16: _resolve_workdir() returns the first of MARS_WORKDIR, OPENCODE_WORKDIR,
\* MARS_LAUNCH_CWD, PWD and the install-relative fallback that is set and is an
\* existing directory, skipping the candidates before it that are not, and
\* returns None only if none of the five is an existing directory.
C16_FirstExistingDirectory ==
    helper = "_resolve_workdir" =>
        LET q == C16_Existing(given)
        IN  /\ ~result.raised
            /\ IF q = {} THEN result.value = None
               ELSE result.value = C16_Candidates(given)[CHOOSE k \in q : \A j \in q : k <= j]

\* MARS_WORKDIR is set to something that is no directory, OPENCODE_WORKDIR is
\* empty, and MARS_LAUNCH_CWD is returned ahead of PWD
C16_Witness ==
    /\ helper = "_resolve_workdir"
    /\ given.MARS_WORKDIR = DirA
    /\ given.OPENCODE_WORKDIR = <<>>
    /\ given.MARS_LAUNCH_CWD = DirB
    /\ given.PWD = DirA
    /\ given.dirs = {DirB, FallbackDir}
    /\ result.value = DirB

-----------------------------------------------------------------------------
(* C17: the connectivity probe *)

C17_Success(answer) == answer.error = "none" /\ answer.status \in 200..299

C17_Answer ==
    helper = "_check_connectivity" =>
        /\ result.requests = 1
        /\ ~result.raised
        /\ result.value => C17_Success(given)
        /\ (given.error # "none" \/ given.status \notin 200..299) => ~result.value

C17_Call == helper' = "_check_connectivity" => UNCHANGED <<_process, _running>>

\* C17: _check_connectivity() issues one GET /config per call, returns True
\* only for a response with a success status, returns False on any network
\* error, timeout or non-success status, never raises, and changes no
\* supervisor state.
C17_ProbeIsTotal == [](C17_Answer) /\ [][C17_Call]_vars

\* The probe timed out while the supervisor believed the server was running
C17_Witness ==
    /\ helper = "_check_connectivity"
    /\ given.error = "Timeout"
    /\ result.value = FALSE
    /\ _running

-----------------------------------------------------------------------------
(* C18: the port arbiter *)

\* C18: _kill_external_server() never raises; os.kill(pid, SIGTERM) is called
\* for every PID reported for the port, and a PID that cannot be signalled (not
\* a number, not permitted, already gone) does not keep the PIDs after it from
\* being signalled.
C18_EveryPidSignalled ==
    helper = "_kill_external_server" =>
        /\ ~result.raised
        /\ \A k \in 1..Len(given.pids) :
              given.pids[k] # "ValueError" => k \in result.killed

\* The first PID had exited, the second was no number, the third was signalled
C18_Witness ==
    /\ helper = "_kill_external_server"
    /\ given.pids = <<"ProcessLookupError", "ValueError", "ok">>
    /\ result.killed = {1, 3}
    /\ result.slept

-----------------------------------------------------------------------------
(* Vocabulary of the properties of MarsAPI *)

\* The request got no response
Unreachable(reply) == reply.net # "none"
\* The response's status is not a success status
Non2xx(reply) == reply.net = "none" /\ reply.status \notin 200..299
\* The response's status is a client or server error
ErrorStatus(reply) == reply.net = "none" /\ reply.status \in 400..599
\* The response has a body that is not valid JSON
Malformed(reply) == reply.net = "none" /\ reply.body = Garbage

SomeReply(P(_)) == \E k \in 1..Len(sent) : P(sent[k].reply)

\* The result the GUI has is a dict with success False and an error message
ReportsFailure ==
    /\ returned.dict
    /\ returned.success = JFalse
    /\ returned.error # JNull

-----------------------------------------------------------------------------
(* C19: the GUI boundary *)

\* C19: every MarsAPI server, session, message, config and command operation
\* returns a result dict with success False and an error message whenever the
\* backend server is unreachable, answers non-2xx, or the internal call (the
\* supervisor's start, the probe) fails.
C19_FailuresAreReported ==
    (called # NoCallYet /\ (SomeReply(Unreachable) \/ SomeReply(Non2xx) \/ ~called.inner))
        => ReportsFailure

-----------------------------------------------------------------------------
(* C20: API errors at the GUI-facing layer *)

-----------------------------------------------------------------------------
(* C21: command execution *)

\* C21: when a session id is resolvable, explicit or current,
\* MarsAPI.execute_command issues POST /session/{id}/command for that session
\* through the REST client, and when the server answers 2xx it returns success
\* True with the server's result.
C21_CommandPassesThrough ==
    (called.op = "execute_command" /\ PyTruthy(ResolveSid(called.session_id))) =>
        /\ Len(sent) = 1
        /\ sent[1].method = "POST"
        /\ sent[1].path = "/session/{id}/command"
        /\ sent[1].sid = ResolveSid(called.session_id)
        /\ ~Unreachable(sent[1].reply) /\ ~Non2xx(sent[1].reply) =>
              returned = Wrap(_request(sent[1].reply))

-----------------------------------------------------------------------------
(* C22: start() under two callers that do not wait for each other *)

\* Both callers are inside start() and each has spawned a child
BothSpawned == \A c \in Callers : op[c] = "start" /\ Spawns(log[c]) = 1

\* C22: start() is not safe under concurrent invocation: when two overlapping
\* start() calls have both spawned a child, the handle refers to the second
\* child only, so the first spawned process is no longer referenced by the
\* supervisor.
C22_FirstHandleOverwritten ==
    BothSpawned => Len(children) = 2 /\ _process = 2

\* No server was reachable for either caller, both spawned, both children live,
\* and only the second is referenced
C22_Witness ==
    /\ BothSpawned
    /\ \A c \in Callers : probe0[c] = "fail"
    /\ Alive(1) /\ Alive(2)
    /\ _process = 2

-----------------------------------------------------------------------------
(* C23: the restart *)

\* The call found an occupant it could not adopt and has returned True
RestartedTrue(c) ==
    /\ Ret(c, "start") /\ ret[c] = TRUE
    /\ Truthy(desired[c])
    /\ Has(log[c], "arbiter")

\* C23: whenever start() returns True with a resolved desired directory d after
\* having found a mismatching occupant, the instance that answered the
\* readiness probe is the child this call spawned and it reports d; success is
\* never returned while the old occupant is the one answering.
C23_RestartPostcondition ==
    \A c \in Callers :
        RestartedTrue(c) =>
            /\ cause[c] = "ready"
            /\ Has(log[c], "spawn")
            /\ listener = ChildListener(_process)
            /\ normpath(ReportedDir(listener)) = normpath(desired[c])

-----------------------------------------------------------------------------
(* C24: the order of stop() *)

\* C24: stop() with an owned handle terminates gracefully, then waits; the
\* force-kill is issued only if the wait timed out and never before the
\* terminate; in both cases the handle is cleared and the running flag is False
\* when stop() returns.
C24_StopOrder ==
    \A c \in Callers :
        /\ pc[c] = "t_wait" => log[c] = <<"terminate">>
        /\ (Ret(c, "stop") /\ Owned(pre[c].process)) =>
              /\ log[c] \in {<<"terminate", "wait">>,
                             <<"terminate", "wait_timeout", "kill">>}
              /\ _process = NoProcess
              /\ _running = FALSE

\* A stop() that had to force-kill a running, owned server has returned
C24_Witness ==
    \E c \in Callers :
        /\ Ret(c, "stop") /\ Owned(pre[c].process) /\ pre[c].running
        /\ Has(log[c], "kill")

-----------------------------------------------------------------------------
(* C25: what ends the event sequence *)

\* C25: the event sequence ends only on peer close or read error (or when the
\* consumer cancels, or no connection was made): no received line ends it by
\* an exception, be it a data line of valid JSON that is not an object or a
\* line that is not valid UTF-8, and when the peer closes every well-formed
\* object line it sent has been emitted.
C25_OnlyCloseOrErrorEnds ==
    /\ ended # "exception"
    /\ ended = "eof" => decoded = Objects(Body(stream))

-----------------------------------------------------------------------------
(* C26: header framing *)

\* decoded is the beginning of the objects the body holds
FromTheBody ==
    /\ Len(decoded) <= Len(Objects(Body(stream)))
    /\ \A k \in 1..Len(decoded) : decoded[k] = Objects(Body(stream))[k]

\* C26: no line received before the first empty line is ever emitted as an
\* event, even if it starts with the data prefix; after the headers a line that
\* does not start with the data prefix emits nothing and does not end the
\* sequence; if the peer closes during the headers the sequence ends with zero
\* events.
C26_HeaderFraming ==
    /\ Len(emitted) = Len(decoded) /\ FromTheBody
    /\ ended = "exception" => stream[pos - 1].prefix = "data: "
    /\ (gen = "done" /\ Body(stream) = <<>>) => emitted = <<>>

-----------------------------------------------------------------------------
(* C27: the launch command *)

\* The command of the child that this step spawns
Spawned == children'[Len(children')].cmd

\* C27: whenever start() spawns, the command is exactly the located binary
\* followed by serve, --port, the configured port, --hostname, the configured
\* host, plus the desired working directory as a final argument if and only if
\* one was resolved; the host and port are those of the connectivity probe's
\* URL.
C27_LaunchCommand ==
    [][\A c \in Callers :
          (pc[c] = "s_spawn" /\ Len(children') = Len(children) + 1) =>
              /\ Len(Spawned) = IF Truthy(desired[c]) THEN 7 ELSE 6
              /\ Spawned[1] = join(UsrLocalBin, opencode)
              /\ SubSeq(Spawned, 2, 6) =
                     << <<"serve">>, <<"--port">>, <<"4096">>, <<"--hostname">>,
                        <<"127.0.0.1">> >>
              /\ Truthy(desired[c]) => Spawned[7] = desired[c]
              /\ base_url(config) =
                     <<"http://">> \o Spawned[6] \o <<":">> \o Spawned[4]]_vars

\* A start() that resolved a directory has spawned a binary found on disk with
\* the directory as the last argument, and is polling the child
C27_Witness ==
    \E c \in Callers :
        /\ pc[c] = "s_poll" /\ Truthy(desired[c])
        /\ Alive(_process)
        /\ children[_process].cmd[1] = join(UsrLocalBin, opencode)
        /\ children[_process].cmd[7] = desired[c]

-----------------------------------------------------------------------------
(* C28: success needs a probe *)

\* C28: whenever start() returns True, a connectivity probe succeeded during
\* that same call and nothing the call did afterwards took the server down: the
\* first probe found a server that was adopted, or a probe of the readiness
\* poll was answered.  start() never reports success from the cached running
\* flag alone.
C28_SuccessIsProbed ==
    \A c \in Callers :
        (Ret(c, "start") /\ ret[c] = TRUE) =>
            \/ probe0[c] = "ok" /\ cause[c] = "adopted"
            \/ cause[c] = "ready"

-----------------------------------------------------------------------------
(* C29: no orphaned children *)

\* C29: under serialized calls of start() and stop(), every child process the
\* supervisor spawned that is still alive is the one the process handle refers
\* to: a later spawn never overwrites the handle of a live earlier child.
C29_NoOrphans ==
    \A i \in 1..Len(children) : Alive(i) => _process = i

-----------------------------------------------------------------------------
(* C30: a project directory that cannot be obtained *)

\* The probe succeeded, a directory is desired, and GET /project/current gave
\* no directory: the request raised or timed out, the status was not 200, or
\* the body could not be parsed or named no path
Unobtained(c) ==
    /\ op[c] = "start" /\ probe0[c] = "ok" /\ Truthy(desired[c])
    /\ ~Readable(seen[c])

\* C30: when the connectivity probe succeeds and a desired directory is
\* resolved but the server's project directory cannot be obtained, start()
\* treats the instance as mismatching: it does not adopt it, and its next step
\* is the port arbiter.
C30_UnobtainedIsMismatch ==
    /\ [](\A c \in Callers :
            /\ (Unobtained(c) /\ pc[c] = "ret") => cause[c] # "adopted"
            /\ (Unobtained(c) /\ pc[c] = "s_kill") =>
                  /\ log[c] = <<"unreadable">>
                  /\ _running = pre[c].running)
    /\ [][\A c \in Callers :
            (Unobtained(c) /\ pc[c] = "s_kill" /\ pc'[c] # pc[c]) =>
                /\ pc'[c] = "s_flag"
                /\ log'[c] = <<"unreadable", "arbiter">>]_vars

\* The arbiter has run for a call whose workdir check got no directory
C30_Witness ==
    \E c \in Callers :
        /\ op[c] = "start" /\ probe0[c] = "ok" /\ Truthy(desired[c])
        /\ log[c] = <<"unreadable", "arbiter">>

-----------------------------------------------------------------------------
(* C31: the session a message goes to *)

\* The requests of this call that create a session, and those that send
Creations == { k \in 1..Len(sent) : sent[k].path = "/session" }
Messages == { k \in 1..Len(sent) : sent[k].path = "/session/{id}/message" }

\* The id the session made by the creation request has, if it gave one
CreatedId ==
    LET session == _request(sent[1].reply)
    IN  IF session.raised \/ get_id(session.value).raised THEN JNull
        ELSE get_id(session.value).value

\* C31: MarsAPI.send_message sends the message to the explicit session_id if
\* given, else to the current session id, else to a newly created session:
\* exactly one create request, made only when both are absent, and the new id
\* becomes the current session id; on success the returned sessionId is the id
\* the message was sent to.
C31_SessionResolution ==
    called.op = "send_message" =>
        /\ Len(sent) = Cardinality(Creations) + Cardinality(Messages)
        /\ Cardinality(Messages) <= 1
        /\ \A k \in Messages : k = Len(sent)
        /\ IF PyTruthy(called.session_id)
           THEN /\ Creations = {}
                /\ Messages # {} /\ sent[1].sid = called.session_id
           ELSE IF PyTruthy(called.before)
           THEN /\ Creations = {}
                /\ Messages # {} /\ sent[1].sid = called.before
           ELSE /\ Creations = {1}
                /\ Messages # {} =>
                      /\ sent[2].sid = CreatedId
                      /\ _current_session_id = CreatedId
                /\ Messages = {} => ~PyTruthy(CreatedId)
        /\ returned.success = JTrue =>
              /\ Messages # {}
              /\ returned.sessionId = sent[Len(sent)].sid

\* A message with no session given and none current: a session was created,
\* the message went to it, and its id is the current one and the one returned
C31_Witness ==
    /\ called.op = "send_message"
    /\ ~PyTruthy(called.session_id) /\ ~PyTruthy(called.before)
    /\ Len(sent) = 2
    /\ returned.success = JTrue
    /\ returned.sessionId = JString("s1")
    /\ _current_session_id = JString("s1")

-----------------------------------------------------------------------------
(* C32: a failure leaves the current session *)

\* C32: a MarsAPI operation that returns success False leaves the current
\* session id unchanged: when send_message or create_session reports failure,
\* _current_session_id has the value it had before the call.
C32_FailureKeepsSession ==
    (returned.dict /\ returned.success = JFalse) =>
        _current_session_id = called.before

====
